---- MODULE Spec2Model ----
(***************************************************************************)
(* vscode-crs-status: the usage module (usage.ts: a three-call remote      *)
(* protocol behind a 10 second cache with a stale-on-error fallback), the  *)
(* extension glue that drives it (refreshUsageData, the auto-refresh       *)
(* timer, the configuration listener) and the status bar item's display    *)
(* logic (statusBar.ts).                                                   *)
(*                                                                         *)
(* All handlers run on one event loop: an action is one macrotask together *)
(* with the microtasks it triggers.  A getUsageInfo call that has to fetch *)
(* is suspended at its awaits; each remote response is its own action.     *)
(* Numbers are exact integers (costs in cents, times in milliseconds).     *)
(***************************************************************************)
EXTENDS Integers, Sequences, FiniteSets, TLC

VARIABLES
    clock,              \* Date.now() / new Date(), in ms
    cachedResult,       \* usage.ts: null (None) or Some(UsageInfo)
    lastFetchTime,      \* usage.ts
    calls,              \* the getUsageInfo invocations suspended at an await, oldest first
    last,               \* the getUsageInfo invocation that settled most recently, if any
    started,            \* how many getUsageInfo invocations there have been
    cleared,            \* history: clearCache() returned and no call began since
    config,             \* the crsStatus configuration store
    statusBarManager,   \* extension: undefined (None) or Some(status bar item)
    refreshInterval,    \* extension: undefined (None) or Some(timer handle)
    timers,             \* the host's live interval timers: handle -> delay in ms
    phase,              \* "loaded", "active", "deactivated"
    pin,                \* input of the pure-function specifications
    pout                \* their output

vars == <<clock, cachedResult, lastFetchTime, calls, last, started, cleared, config,
          statusBarManager, refreshInterval, timers, phase, pin, pout>>

usageVars == <<cachedResult, lastFetchTime, calls, last, started, cleared>>
extVars == <<config, statusBarManager, refreshInterval, timers, phase>>
pureVars == <<pin, pout>>

----------------------------------------------------------------------------
(* Bounds *)

MaxCalls == 2
MaxTicks == 1

----------------------------------------------------------------------------
(* Optional values: undefined / null is None, a present value x is Some(x) *)

None == <<>>
Some(x) == <<x>>

\* JavaScript `x || 0` on an optional number: absent and 0 both give 0
OrZero(o) == IF o = None THEN 0 ELSE o[1]

----------------------------------------------------------------------------
(* usage.ts *)

CACHE_TTL_MS == 10 * 1000

\* the clock starts well past the epoch and advances in steps of one TTL
StartTime == 2 * CACHE_TTL_MS
TickMs == CACHE_TTL_MS
MaxClock == StartTime + MaxTicks * TickMs

\* HTTP responses of the remote: the transport rejects, or a status arrives
\* with a JSON envelope {success, data?}
Rejected == [rejected |-> TRUE, ok |-> FALSE, status |-> 0, success |-> FALSE, data |-> None]
Http(s) == [rejected |-> FALSE, ok |-> FALSE, status |-> s, success |-> FALSE, data |-> None]
Envelope(s, d) == [rejected |-> FALSE, ok |-> TRUE, status |-> 200, success |-> s, data |-> d]

\* results of the three request functions
Threw(m) == [threw |-> TRUE, message |-> m, value |-> None]
Returned(v) == [threw |-> FALSE, message |-> <<>>, value |-> Some(v)]

\* the remote refuses a request: the transport fails, the status is not a
\* success, or the envelope carries no success flag or no data
Refusal(response) ==
    response.rejected \/ ~response.ok \/ ~response.success \/ response.data = None

getApiId(response) ==
    IF response.rejected THEN Threw(<<"fetch failed">>)
    ELSE IF ~response.ok THEN Threw(<<"Failed to get API ID: ", response.status>>)
    ELSE IF ~response.success \/ response.data = None
            \/ response.data[1].id = "" THEN
        Threw(<<"Invalid response from get-key-id API">>)
    ELSE Returned(response.data[1].id)

getUserStats(response) ==
    IF response.rejected THEN Threw(<<"fetch failed">>)
    ELSE IF ~response.ok THEN Threw(<<"Failed to get user stats: ", response.status>>)
    ELSE IF ~response.success \/ response.data = None THEN
        Threw(<<"Invalid response from user-stats API">>)
    ELSE Returned(response.data[1])

\* faulty variant: a refused model breakdown counts as an empty one
getUserModelStatsLenient(response) ==
    IF response.rejected \/ ~response.ok \/ ~response.success \/ response.data = None
    THEN Returned(<<>>)
    ELSE Returned(response.data[1])

getUserModelStats(response) ==
    IF response.rejected THEN Threw(<<"fetch failed">>)
    ELSE IF ~response.ok THEN Threw(<<"Failed to get user model stats: ", response.status>>)
    ELSE IF ~response.success \/ response.data = None THEN
        Threw(<<"Invalid response from user-model-stats API">>)
    ELSE Returned(response.data[1])

\* monthlyModelStats.reduce(...): a left fold from {tokens: 0, cost: 0}
RECURSIVE monthlyTotals(_)
monthlyTotals(models) ==
    IF models = <<>> THEN [tokens |-> 0, cost |-> 0]
    ELSE LET acc == monthlyTotals(SubSeq(models, 1, Len(models) - 1))
             model == models[Len(models)]
         IN [tokens |-> acc.tokens + OrZero(model.allTokens),
             cost |-> acc.cost + OrZero(model.costs)]

\* faulty variant: the monthly window borrows the total limit, and the total tokens the
\* monthly sum
assembleUsageInfoMixed(stats, monthlyModelStats, date) ==
    LET limits == stats.limits[1]
        totals == monthlyTotals(monthlyModelStats)
    IN [daily |-> [cost |-> [used |-> OrZero(limits.currentDailyCost),
                             total |-> OrZero(limits.dailyCostLimit)],
                   tokens |-> OrZero(stats.allTokens)],
        monthly |-> [cost |-> [used |-> totals.cost,
                               total |-> OrZero(limits.totalCostLimit)],
                     tokens |-> totals.tokens],
        total |-> [cost |-> [used |-> OrZero(limits.currentTotalCost),
                             total |-> OrZero(limits.totalCostLimit)],
                   tokens |-> totals.tokens],
        lastUpdate |-> date,
        error |-> None]

\* the object fetchUsageData returns (stats.limits is present)
assembleUsageInfo(stats, monthlyModelStats, date) ==
    LET limits == stats.limits[1]
        totals == monthlyTotals(monthlyModelStats)
    IN [daily |-> [cost |-> [used |-> OrZero(limits.currentDailyCost),
                             total |-> OrZero(limits.dailyCostLimit)],
                   tokens |-> OrZero(stats.allTokens)],
        monthly |-> [cost |-> [used |-> totals.cost, total |-> 0],
                     tokens |-> totals.tokens],
        total |-> [cost |-> [used |-> OrZero(limits.currentTotalCost),
                             total |-> OrZero(limits.totalCostLimit)],
                   tokens |-> OrZero(stats.allTokens)],
        lastUpdate |-> date,
        error |-> None]

\* the part of fetchUsageData after Promise.all has resolved; destructuring
\* `limits` out of a stats object without one makes the first property read throw
fetchUsageDataTail(stats, monthlyModelStats, date) ==
    IF stats.limits = None THEN
        Threw(<<"Cannot read properties of undefined (reading 'currentDailyCost')">>)
    ELSE Returned(assembleUsageInfo(stats, monthlyModelStats, date))

\* fetchUsageData as a function of the three answers; when both parallel requests
\* fail, Promise.all rejects with the failure that arrives first
fetchUsageData(keyId, userStats, userModelStats, statsFirst, date) ==
    LET a == getApiId(keyId)
        s == getUserStats(userStats)
        m == getUserModelStats(userModelStats)
    IN IF a.threw THEN a
       ELSE IF s.threw /\ (statsFirst \/ ~m.threw) THEN s
       ELSE IF m.threw THEN m
       ELSE fetchUsageDataTail(s.value[1], m.value[1], date)

----------------------------------------------------------------------------
(* The remote service: what each endpoint may answer *)

AccountOf(apiKey) == IF apiKey = "k1" THEN "id1" ELSE "id2"

StatsData(tokens, dailyUsed, dailyLimit, totalUsed, totalLimit) ==
    [allTokens |-> tokens,
     limits |-> Some([currentDailyCost |-> dailyUsed, dailyCostLimit |-> dailyLimit,
                      currentTotalCost |-> totalUsed, totalCostLimit |-> totalLimit])]

RemoteStats(apiId) ==
    IF apiId = "id1"
    THEN {StatsData(Some(1200), Some(750), Some(1000), Some(4000), None)}
    ELSE {StatsData(Some(90), Some(10), None, Some(10), None)}

RemoteModels(apiId) ==
    IF apiId = "id1"
    THEN {<<[allTokens |-> Some(12000), costs |-> Some(300)],
            [allTokens |-> Some(345), costs |-> Some(20)]>>}
    ELSE {<<>>}

\* every kind of failure occurs at some endpoint: the transport rejecting and an
\* envelope without id at get-key-id, a non-success status at user-stats,
\* success: false at user-model-stats
KeyIdResponses(apiKey) ==
    {Rejected, Envelope(TRUE, None), Envelope(TRUE, Some([id |-> AccountOf(apiKey)]))}

UserStatsResponses(apiId) ==
    {Http(500)} \cup {Envelope(TRUE, Some(d)) : d \in RemoteStats(apiId)}

UserModelStatsResponses(apiId) ==
    {Envelope(FALSE, None)} \cup {Envelope(TRUE, Some(d)) : d \in RemoteModels(apiId)}

----------------------------------------------------------------------------
(* getUsageInfo *)

\* faulty variant: the TTL comparison off by one: a snapshot exactly TTL old still counts
cacheIsValidInclusive(cr, lft, now) == cr # None /\ now - lft <= CACHE_TTL_MS

\* `cachedResult && now - lastFetchTime < CACHE_TTL_MS`
cacheIsValid(cr, lft, now) == cr # None /\ now - lft < CACHE_TTL_MS

\* faulty variant: the cache is consulted before the arguments are checked
getUsageInfoEntryCacheFirst(cr, lft, caller, afterClear, baseUrl, apiKey) ==
    LET base == [caller |-> caller, afterClear |-> afterClear,
                 baseUrl |-> baseUrl, apiKey |-> apiKey, now |-> clock,
                 pc |-> "done", outcome |-> "threw", value |-> None,
                 message |-> <<>>, apiId |-> None, stats |-> None,
                 models |-> None, issued |-> {}, clearedSince |-> FALSE,
                 overtaken |-> FALSE, refused |-> {}]
    IN IF cacheIsValid(cr, lft, clock) THEN
           [base EXCEPT !.outcome = "cached", !.value = cr]
       ELSE IF baseUrl = "" \/ apiKey = "" THEN
           [base EXCEPT !.message = <<"Not configured">>]
       ELSE
           [base EXCEPT !.pc = "id", !.outcome = "pending",
                        !.issued = {"get-key-id"}]

\* a getUsageInfo invocation up to its first await: it throws 'Not configured',
\* returns the cached result, or has called fetchUsageData, which has posted
\* get-key-id
getUsageInfoEntry(cr, lft, caller, afterClear, baseUrl, apiKey) ==
    LET base == [caller |-> caller, afterClear |-> afterClear,
                 baseUrl |-> baseUrl, apiKey |-> apiKey, now |-> clock,
                 pc |-> "done", outcome |-> "threw", value |-> None,
                 message |-> <<>>, apiId |-> None, stats |-> None,
                 models |-> None, issued |-> {}, clearedSince |-> FALSE,
                 overtaken |-> FALSE, refused |-> {}]
    IN IF baseUrl = "" \/ apiKey = "" THEN
           [base EXCEPT !.message = <<"Not configured">>]
       ELSE IF cacheIsValid(cr, lft, clock) THEN
           [base EXCEPT !.outcome = "cached", !.value = cr]
       ELSE
           [base EXCEPT !.pc = "id", !.outcome = "pending",
                        !.issued = {"get-key-id"}]

\* faulty variant: the stale copy keeps the time of the fetch that produced it
fallbackResultStaleDate(cr, date, message) == Some([cr[1] EXCEPT !.error = Some(message)])

\* the stale copy the catch block returns
fallbackResult(cr, date, message) ==
    Some([cr[1] EXCEPT !.lastUpdate = date, !.error = Some(message)])

\* faulty variant: a result is stored only when no later call has stored one
settleSuccessNewest(call, result) ==
    [call |-> [call EXCEPT !.pc = "done", !.outcome = "fresh",
                           !.value = Some(result), !.apiId = None],
     cachedResult |-> IF cachedResult # None /\ lastFetchTime > call.now
                      THEN cachedResult ELSE Some(result),
     lastFetchTime |-> IF cachedResult # None /\ lastFetchTime > call.now
                       THEN lastFetchTime ELSE call.now]

\* fetchUsageData resolved: the cache is written and the result returned
settleSuccess(call, result) ==
    [call |-> [call EXCEPT !.pc = "done", !.outcome = "fresh",
                           !.value = Some(result), !.apiId = None],
     cachedResult |-> Some(result),
     lastFetchTime |-> call.now]

\* faulty variant: the catch block swallows the error when there is nothing to fall back to
settleFailureSwallow(call, message) ==
    [call |-> [call EXCEPT !.pc = "done", !.outcome = "fallback", !.apiId = None,
                           !.value = IF cachedResult # None
                                     THEN fallbackResult(cachedResult, clock, message)
                                     ELSE Some([daily |-> [cost |-> [used |-> 0, total |-> 0],
                                                           tokens |-> 0],
                                                monthly |-> [cost |-> [used |-> 0, total |-> 0],
                                                             tokens |-> 0],
                                                total |-> [cost |-> [used |-> 0, total |-> 0],
                                                           tokens |-> 0],
                                                lastUpdate |-> clock,
                                                error |-> Some(message)])],
     cachedResult |-> cachedResult,
     lastFetchTime |-> lastFetchTime]

\* faulty variant: the catch block stores the stale copy it returns
settleFailureCaches(call, message) ==
    [call |-> IF cachedResult # None
              THEN [call EXCEPT !.pc = "done", !.outcome = "fallback", !.apiId = None,
                                !.value = fallbackResult(cachedResult, clock, message)]
              ELSE [call EXCEPT !.pc = "done", !.outcome = "threw", !.apiId = None,
                                !.message = message],
     cachedResult |-> IF cachedResult # None
                      THEN fallbackResult(cachedResult, clock, message)
                      ELSE cachedResult,
     lastFetchTime |-> IF cachedResult # None THEN call.now ELSE lastFetchTime]

\* fetchUsageData rejected: the catch block of getUsageInfo
settleFailure(call, message) ==
    [call |-> IF cachedResult # None
              THEN [call EXCEPT !.pc = "done", !.outcome = "fallback", !.apiId = None,
                                !.value = fallbackResult(cachedResult, clock, message)]
              ELSE [call EXCEPT !.pc = "done", !.outcome = "threw", !.apiId = None,
                                !.message = message],
     cachedResult |-> cachedResult,
     lastFetchTime |-> lastFetchTime]

\* faulty variant: the snapshot is stamped with the time at which the call began
settleBothStartDate(call, stats, models) ==
    LET r == fetchUsageDataTail(stats, models, call.now)
    IN IF r.threw THEN settleFailure(call, r.message)
       ELSE settleSuccess(call, r.value[1])

\* both parallel requests have answered: the rest of fetchUsageData
settleBoth(call, stats, models) ==
    LET r == fetchUsageDataTail(stats, models, clock)
    IN IF r.threw THEN settleFailure(call, r.message)
       ELSE settleSuccess(call, r.value[1])

----------------------------------------------------------------------------
(* statusBar.ts: the status bar item *)

\* Number.prototype.toFixed(digits) of num/den, as the integer num/den * 10^digits
\* rounded half up (non-negative values)
toFixed(num, den, digits) ==
    LET scale == IF digits = 1 THEN 10 ELSE 100
    IN [digits |-> digits, scaled |-> (2 * num * scale + den) \div (2 * den)]

\* the item's text: an icon, then optionally "<percentage>%" and "($used/$total)"
Text(icon, percentage, amount) ==
    [icon |-> icon, percentage |-> percentage, amount |-> amount]

Tooltip(kind, message, usage) == [kind |-> kind, message |-> message, usage |-> usage]

\* new StatusBarManager()
newStatusBarItem ==
    [text |-> Text("$(credit-card)", None, None), command |-> "crsStatus.refresh",
     backgroundColor |-> "none", tooltip |-> Tooltip("none", <<>>, None)]

\* the periods with a limit, in the order they are pushed
limitsOf(usageInfo) ==
    (IF usageInfo.daily.cost.total > 0
     THEN <<[name |-> "Daily", used |-> usageInfo.daily.cost.used,
             total |-> usageInfo.daily.cost.total]>> ELSE <<>>)
    \o (IF usageInfo.monthly.cost.total > 0
        THEN <<[name |-> "Monthly", used |-> usageInfo.monthly.cost.used,
                total |-> usageInfo.monthly.cost.total]>> ELSE <<>>)
    \o (IF usageInfo.total.cost.total > 0
        THEN <<[name |-> "Total", used |-> usageInfo.total.cost.used,
                total |-> usageInfo.total.cost.total]>> ELSE <<>>)

\* faulty variant: the loop compares with <=, so a later period wins a tie
RECURSIVE mostConstrainedIndexLastWins(_, _)
mostConstrainedIndexLastWins(limits, n) ==
    IF n = 1 THEN 1
    ELSE LET best == mostConstrainedIndexLastWins(limits, n - 1)
         IN IF limits[n].total - limits[n].used <= limits[best].total - limits[best].used
            THEN n ELSE best

\* the loop over limits[1..]: the index of the entry kept after looking at the first n
RECURSIVE mostConstrainedIndex(_, _)
mostConstrainedIndex(limits, n) ==
    IF n = 1 THEN 1
    ELSE LET best == mostConstrainedIndex(limits, n - 1)
         IN IF limits[n].total - limits[n].used < limits[best].total - limits[best].used
            THEN n ELSE best

getMostConstrainedLimit(usageInfo) ==
    LET limits == limitsOf(usageInfo)
    IN IF Len(limits) = 0 THEN None
       ELSE Some(limits[mostConstrainedIndex(limits, Len(limits))])

\* costs are in cents: a cost c is the number c/100
formatCurrency(value) == [prefix |-> "$", number |-> toFixed(value, 100, 2)]

\* faulty variant: the amounts of the compact text go through the currency format
formatStatusBarTextCurrency(usageInfo, showAmount) ==
    LET constrained == getMostConstrainedLimit(usageInfo)
    IN IF constrained = None THEN Text("$(credit-card)", None, None)
       ELSE LET c == constrained[1]
                percentage == toFixed(c.used * 100, c.total, 1)
            IN IF ~showAmount THEN Text("$(credit-card)", Some(percentage), None)
               ELSE Text("$(credit-card)", Some(percentage),
                         Some([used |-> toFixed(c.used, 100, 2),
                               total |-> toFixed(c.total, 100, 2)]))

\* "$(credit-card) <percentage>%" and, with showAmount, " ($<used>/$<total>)"
formatStatusBarText(usageInfo, showAmount) ==
    LET constrained == getMostConstrainedLimit(usageInfo)
    IN IF constrained = None THEN Text("$(credit-card)", None, None)
       ELSE LET c == constrained[1]
                percentage == toFixed(c.used * 100, c.total, 1)
            IN IF ~showAmount THEN Text("$(credit-card)", Some(percentage), None)
               ELSE Text("$(credit-card)", Some(percentage),
                         Some([used |-> toFixed(c.used, 100, 1),
                               total |-> toFixed(c.total, 100, 1)]))

\* a token count: the number with a unit suffix
formatTokens(tokens) ==
    IF tokens >= 1000000 THEN [number |-> toFixed(tokens, 1000000, 2), unit |-> "M"]
    ELSE IF tokens >= 1000 THEN [number |-> toFixed(tokens, 1000, 2), unit |-> "K"]
    ELSE [number |-> [digits |-> 0, scaled |-> tokens], unit |-> ""]

\* the cells of a bar: `filled` cells of the dark glyph, then `empty` of the light one
Cells(filled, empty) ==
    [i \in 1..(filled + empty) |-> IF i <= filled THEN "filled" ELSE "empty"]

\* faulty variant: the number of filled cells is rounded down
generateProgressBarFloor(used, total, width) ==
    IF total <= 0 THEN None
    ELSE LET filled == IF used >= total THEN width ELSE (used * width) \div total
             empty == width - filled
         IN Some([bar |-> Cells(filled, empty),
                  text |-> IF used >= total THEN toFixed(100, 1, 1)
                           ELSE toFixed(used * 100, total, 1)])

\* percentage = Math.min(used / total, 1); Math.round rounds halves up
generateProgressBar(used, total, width) ==
    IF total <= 0 THEN None
    ELSE LET filled == IF used >= total THEN width
                       ELSE (2 * used * width + total) \div (2 * total)
             empty == width - filled
         IN Some([bar |-> Cells(filled, empty),
                  text |-> IF used >= total THEN toFixed(100, 1, 1)
                           ELSE toFixed(used * 100, total, 1)])

\* one section of the tooltip: the row of the period's name, the bar when there
\* is one, the cost row and the tokens row
tooltipSection(name, window) ==
    LET costText == IF window.cost.total > 0
                    THEN <<formatCurrency(window.cost.used), formatCurrency(window.cost.total)>>
                    ELSE <<formatCurrency(window.cost.used)>>
        progressBar == generateProgressBar(window.cost.used, window.cost.total, 25)
    IN [name |-> name,
        label |-> IF progressBar # None THEN Some(progressBar[1].text) ELSE None,
        unlimited |-> progressBar = None,
        bar |-> IF progressBar # None THEN Some(progressBar[1].bar) ELSE None,
        cost |-> costText,
        tokens |-> formatTokens(window.tokens)]

\* the Daily, Monthly and Total sections of the tooltip
tooltipSections(usageInfo) ==
    <<tooltipSection("Daily", usageInfo.daily),
      tooltipSection("Monthly", usageInfo.monthly),
      tooltipSection("Total", usageInfo.total)>>

updateTooltip(item, cfg, usageInfo) ==
    [item EXCEPT !.text = IF cfg.showUsageInStatusBar
                          THEN formatStatusBarText(usageInfo, cfg.showAmountInStatusBar)
                          ELSE Text("$(credit-card)", None, None),
                 !.backgroundColor = "none",
                 !.tooltip = [kind |-> "usage", message |-> <<>>, usage |-> Some(usageInfo),
                              sections |-> tooltipSections(usageInfo)]]

showLoading(item) ==
    [item EXCEPT !.text = Text("$(sync~spin)", None, None),
                 !.tooltip = Tooltip("loading", <<>>, None),
                 !.backgroundColor = "none"]

showError(item, message) ==
    [item EXCEPT !.text = Text("$(error) Error", None, None),
                 !.backgroundColor = "error",
                 !.tooltip = Tooltip("error", message, None)]

showConfigRequired(item) ==
    [item EXCEPT !.text = Text("$(debug-disconnect) Invalid Config", None, None),
                 !.backgroundColor = "error",
                 !.command = "crsStatus.openSettings",
                 !.tooltip = Tooltip("config", <<>>, None)]

showReady(item) ==
    [item EXCEPT !.text = Text("$(credit-card)", None, None),
                 !.backgroundColor = "none",
                 !.command = "crsStatus.refresh"]

----------------------------------------------------------------------------
(* The extension *)

Config(baseUrl, apiKey, seconds, showUsage, showAmount) ==
    [baseUrl |-> baseUrl, apiKey |-> apiKey, refreshInterval |-> seconds,
     showUsageInStatusBar |-> showUsage, showAmountInStatusBar |-> showAmount]

\* the settings the configuration store may hold; refreshInterval is None when the
\* setting is absent
Configs ==
    {Config("u1", "k1", None, TRUE, TRUE),
     Config("u1", "k2", Some(1), TRUE, FALSE),
     Config("u1", "", Some(0), FALSE, TRUE)}

\* getConfig(): the stored settings with the default for an absent refreshInterval
getConfig(settings) ==
    [baseUrl |-> settings.baseUrl, apiKey |-> settings.apiKey,
     refreshInterval |-> IF settings.refreshInterval = None THEN 60
                         ELSE settings.refreshInterval[1]]

isConfigured(cfg) == cfg.baseUrl # "" /\ cfg.apiKey # ""

\* the state of the display, read off the item as the sink shows it
DisplayState(item) ==
    IF item.text.icon = "$(sync~spin)" THEN "Loading"
    ELSE IF item.text.icon = "$(error) Error" THEN "Error"
    ELSE IF item.text.icon = "$(debug-disconnect) Invalid Config" THEN "Unconfigured"
    ELSE IF item.tooltip.kind = "usage" THEN "Ready"
    ELSE "Initial"

\* faulty variant: a snapshot that carries an error is displayed like any other
refreshContinuationNoThrow(item, cfg, call) ==
    IF call.outcome = "threw" THEN showError(item, call.message)
    ELSE updateTooltip(showReady(item), cfg, call.value[1])

\* faulty variant: a rejected getUsageInfo is swallowed without touching the item
refreshContinuationSilent(item, cfg, call) ==
    IF call.outcome = "threw" THEN item
    ELSE IF call.value[1].error # None /\ call.value[1].error[1] # <<>>
    THEN showError(item, call.value[1].error[1])
    ELSE updateTooltip(showReady(item), cfg, call.value[1])

\* refreshUsageData after `await getUsageInfo(...)` has settled
refreshContinuation(item, cfg, call) ==
    IF call.outcome = "threw" THEN showError(item, call.message)
    ELSE IF call.value[1].error # None /\ call.value[1].error[1] # <<>>
    THEN showError(item, call.value[1].error[1])
    ELSE updateTooltip(showReady(item), cfg, call.value[1])

\* what is kept of an invocation once it has settled
settled(call) == [call EXCEPT !.now = 0, !.clearedSince = FALSE]

\* history: the suspended invocations see a clearCache() go by
sawClear(cs) == [i \in DOMAIN cs |-> [cs[i] EXCEPT !.clearedSince = TRUE]]

\* history, kept for the calls of API clients: the fetch at position c ends with
\* the given outcome while the fetches of cs are outstanding; the ones that began
\* before it (position below c) see a fetch that began after them succeed
overtaken(cs, c, outcome) ==
    [i \in DOMAIN cs |->
        IF i < c /\ outcome = "fresh" /\ cs[i].caller = "api"
        THEN [cs[i] EXCEPT !.overtaken = TRUE] ELSE cs[i]]

\* the suspended invocations without the one at position c
Others(cs, c) == SubSeq(cs, 1, c - 1) \o SubSeq(cs, c + 1, Len(cs))

\* a new invocation either waits for get-key-id or has settled already
Begin(cs, call) ==
    IF call.pc = "done"
    THEN last' = Some(settled(call)) /\ calls' = cs
    ELSE calls' = Append(cs, call) /\ last' = last

\* refreshUsageData up to its await (and past it when getUsageInfo settles at once)
refreshUsageData(sbm, cfg, forceRefresh) ==
    IF sbm = None THEN
        /\ statusBarManager' = sbm
        /\ UNCHANGED usageVars
    ELSE IF ~isConfigured(cfg) THEN
        /\ statusBarManager' = Some(showConfigRequired(sbm[1]))
        /\ UNCHANGED usageVars
    ELSE
        LET cr == IF forceRefresh THEN None ELSE cachedResult
            lft == IF forceRefresh THEN 0 ELSE lastFetchTime
            call == getUsageInfoEntry(cr, lft, "ext", forceRefresh \/ cleared,
                                      cfg.baseUrl, cfg.apiKey)
            loading == showLoading(sbm[1])
        IN /\ started < MaxCalls
           /\ started' = started + 1
           /\ Begin(IF forceRefresh THEN sawClear(calls) ELSE calls, call)
           /\ cachedResult' = cr
           /\ lastFetchTime' = lft
           /\ cleared' = FALSE
           /\ statusBarManager' =
                  IF call.pc = "done"
                  THEN Some(refreshContinuation(loading, cfg, call))
                  ELSE Some(loading)

\* the smallest handle the host has not handed out among the live timers
freshHandle(live) == CHOOSE h \in 1..(Cardinality(DOMAIN live) + 1) : h \notin DOMAIN live

\* setInterval's delay: the host runs a delay below 1 ms as 1 ms
timerDelay(ms) == IF ms < 1 THEN 1 ELSE ms

Without(live, h) == [k \in DOMAIN live \ {h} |-> live[k]]
With(live, h, delay) == [k \in DOMAIN live \cup {h} |-> IF k = h THEN delay ELSE live[k]]

\* faulty variant: the previous interval is not cleared
setupAutoRefreshLeak(cfg) ==
    LET h == freshHandle(timers)
        intervalSeconds == getConfig(cfg).refreshInterval
        intervalMs == intervalSeconds * 1000
    IN /\ timers' = With(timers, h, timerDelay(intervalMs))
       /\ refreshInterval' = Some(h)

setupAutoRefresh(cfg) ==
    LET kept == IF refreshInterval # None THEN Without(timers, refreshInterval[1])
                ELSE timers
        h == freshHandle(kept)
        intervalSeconds == getConfig(cfg).refreshInterval
        intervalMs == intervalSeconds * 1000
    IN /\ timers' = With(kept, h, timerDelay(intervalMs))
       /\ refreshInterval' = Some(h)

----------------------------------------------------------------------------
(* Actions *)

\* time passes
Tick ==
    /\ clock < MaxClock
    /\ clock' = clock + TickMs
    /\ UNCHANGED <<usageVars, extVars, pureVars>>

\* a getUsageInfo call settles: the cache is written as the call decided, and the
\* refreshUsageData that awaits it (if any) updates the display
Settle(c, s) ==
    /\ calls' = Others(overtaken(calls, c, s.call.outcome), c)
    /\ last' = Some(settled(s.call))
    /\ cachedResult' = s.cachedResult
    /\ lastFetchTime' = s.lastFetchTime
    /\ statusBarManager' =
           IF calls[c].caller = "ext" /\ statusBarManager # None
           THEN Some(refreshContinuation(statusBarManager[1], config, s.call))
           ELSE statusBarManager
    /\ UNCHANGED <<clock, started, cleared, config, refreshInterval, timers, phase, pureVars>>

\* history: the invocation with a refused request noted
noted(call, request, response) ==
    [call EXCEPT !.refused = IF Refusal(response) THEN @ \cup {request} ELSE @]

\* get-key-id answers call c
KeyIdResponse(c, response) ==
    /\ calls[c].pc = "id"
    /\ LET r == getApiId(response)
           call == noted(calls[c], "get-key-id", response)
       IN IF r.threw THEN Settle(c, settleFailure(call, r.message))
          ELSE /\ calls' = [calls EXCEPT ![c] =
                               [call EXCEPT !.pc = "both", !.apiId = r.value,
                                            !.issued = @ \cup {"user-stats", "user-model-stats"}]]
               /\ UNCHANGED <<clock, cachedResult, lastFetchTime, last, started, cleared,
                               extVars, pureVars>>

\* user-stats answers call c
UserStatsResponse(c, response) ==
    /\ calls[c].pc = "both"
    /\ calls[c].stats = None
    /\ LET r == getUserStats(response)
           call == noted(calls[c], "user-stats", response)
       IN IF r.threw THEN
              Settle(c, settleFailure([call EXCEPT !.models = None], r.message))
          ELSE IF call.models # None THEN
              Settle(c, settleBoth([call EXCEPT !.models = None],
                                   r.value[1], call.models[1]))
          ELSE /\ calls' = [calls EXCEPT ![c] = [call EXCEPT !.stats = r.value]]
               /\ UNCHANGED <<clock, cachedResult, lastFetchTime, last, started, cleared,
                               extVars, pureVars>>

\* user-model-stats answers call c
UserModelStatsResponse(c, response) ==
    /\ calls[c].pc = "both"
    /\ calls[c].models = None
    /\ LET r == getUserModelStats(response)
           call == noted(calls[c], "user-model-stats", response)
       IN IF r.threw THEN
              Settle(c, settleFailure([call EXCEPT !.stats = None], r.message))
          ELSE IF call.stats # None THEN
              Settle(c, settleBoth([call EXCEPT !.stats = None],
                                   call.stats[1], r.value[1]))
          ELSE /\ calls' = [calls EXCEPT ![c] = [call EXCEPT !.models = r.value]]
               /\ UNCHANGED <<clock, cachedResult, lastFetchTime, last, started, cleared,
                               extVars, pureVars>>

\* some client calls the exported getUsageInfo
GetUsageInfo(baseUrl, apiKey) ==
    /\ started < MaxCalls
    /\ started' = started + 1
    /\ LET call == getUsageInfoEntry(cachedResult, lastFetchTime, "api", cleared,
                                     baseUrl, apiKey)
       IN /\ Begin(calls, call)
          /\ cleared' = (cleared /\ (baseUrl = "" \/ apiKey = ""))
    /\ UNCHANGED <<clock, cachedResult, lastFetchTime, extVars, pureVars>>

\* some client calls the exported clearCache
clearCache ==
    /\ cachedResult' = None
    /\ lastFetchTime' = 0
    /\ cleared' = TRUE
    /\ calls' = sawClear(calls)
    /\ UNCHANGED <<clock, last, started, extVars, pureVars>>

activate ==
    /\ phase = "loaded"
    /\ phase' = "active"
    /\ IF isConfigured(config)
       THEN /\ setupAutoRefresh(config)
            /\ refreshUsageData(Some(newStatusBarItem), config, FALSE)
       ELSE /\ statusBarManager' = Some(showConfigRequired(newStatusBarItem))
            /\ UNCHANGED <<usageVars, refreshInterval, timers>>
    /\ UNCHANGED <<clock, config, pureVars>>

\* the crsStatus.refresh command
refreshCommand ==
    /\ phase = "active"
    /\ refreshUsageData(statusBarManager, config, TRUE)
    /\ UNCHANGED <<clock, config, refreshInterval, timers, phase, pureVars>>

\* the configuration store changes and notifies the listener
configChangeListener(cfg) ==
    /\ phase = "active"
    /\ cfg # config
    /\ config' = cfg
    /\ setupAutoRefresh(cfg)
    /\ refreshUsageData(statusBarManager, cfg, TRUE)
    /\ UNCHANGED <<clock, phase, pureVars>>

\* a live interval timer fires
TimerTick(h) ==
    /\ h \in DOMAIN timers
    /\ refreshUsageData(statusBarManager, config, FALSE)
    /\ UNCHANGED <<clock, config, refreshInterval, timers, phase, pureVars>>

deactivate ==
    /\ phase = "active"
    /\ phase' = "deactivated"
    /\ timers' = IF refreshInterval # None THEN Without(timers, refreshInterval[1])
                 ELSE timers
    /\ refreshInterval' = None
    /\ statusBarManager' = None
    /\ UNCHANGED <<clock, usageVars, config, pureVars>>

----------------------------------------------------------------------------
(* Specifications *)

Calls == 1..Len(calls)

\* the arguments clients pass to getUsageInfo
ArgPairs == {<<"u1", "k1">>, <<"", "k1">>, <<"u1", "">>}

InitCommon ==
    /\ clock = StartTime
    /\ cachedResult = None
    /\ lastFetchTime = 0
    /\ calls = <<>>
    /\ last = None
    /\ started = 0
    /\ cleared = FALSE
    /\ statusBarManager = None
    /\ refreshInterval = None
    /\ timers = <<>>
    /\ phase = "loaded"

\* the answers the remote may give to the requests call c has outstanding
KeyIdAnswers(c) == IF calls[c].pc = "id" THEN KeyIdResponses(calls[c].apiKey) ELSE {}
UserStatsAnswers(c) ==
    IF calls[c].pc = "both" THEN UserStatsResponses(calls[c].apiId[1]) ELSE {}
UserModelStatsAnswers(c) ==
    IF calls[c].pc = "both" THEN UserModelStatsResponses(calls[c].apiId[1]) ELSE {}

\* the extension, driven by its host
Init == InitCommon /\ config \in Configs /\ pin = None /\ pout = None

Next ==
    \/ Tick
    \/ \E c \in Calls : \E r \in KeyIdAnswers(c) : KeyIdResponse(c, r)
    \/ \E c \in Calls : \E r \in UserStatsAnswers(c) : UserStatsResponse(c, r)
    \/ \E c \in Calls : \E r \in UserModelStatsAnswers(c) : UserModelStatsResponse(c, r)
    \/ activate
    \/ refreshCommand
    \/ \E cfg \in Configs : configChangeListener(cfg)
    \/ \E h \in DOMAIN timers : TimerTick(h)
    \/ deactivate

Spec == Init /\ [][Next]_vars

\* the remote answers some outstanding request and the event loop runs what awaits it
Answers ==
    \/ \E c \in Calls : \E r \in KeyIdAnswers(c) : KeyIdResponse(c, r)
    \/ \E c \in Calls : \E r \in UserStatsAnswers(c) : UserStatsResponse(c, r)
    \/ \E c \in Calls : \E r \in UserModelStatsAnswers(c) : UserModelStatsResponse(c, r)

\* no time passes in these runs: a refresh finds the cache empty, cleared or fresh
NextLive ==
    \/ Answers
    \/ activate
    \/ refreshCommand
    \/ \E cfg \in Configs : configChangeListener(cfg)
    \/ \E h \in DOMAIN timers : TimerTick(h)
    \/ deactivate

\* the extension with a remote that answers (or fails) every request it is sent:
\* an outstanding request is not left unanswered forever
SpecLive == Init /\ [][NextLive]_vars /\ WF_vars(Answers)

\* the usage module, driven by arbitrary clients of its two exports
InitUsage ==
    InitCommon /\ config = Config("u1", "k1", None, TRUE, TRUE) /\ pin = None /\ pout = None

NextUsage ==
    \/ Tick
    \/ \E c \in Calls : \E r \in KeyIdAnswers(c) : KeyIdResponse(c, r)
    \/ \E c \in Calls : \E r \in UserStatsAnswers(c) : UserStatsResponse(c, r)
    \/ \E c \in Calls : \E r \in UserModelStatsAnswers(c) : UserModelStatsResponse(c, r)
    \/ \E a \in ArgPairs : GetUsageInfo(a[1], a[2])
    \/ clearCache

SpecUsage == InitUsage /\ [][NextUsage]_vars

----------------------------------------------------------------------------
(* fetchUsageData on its own: every shape of answer at every endpoint *)

MaxModels == 2

OptOf(S) == {None} \cup {Some(x) : x \in S}

AnyStatsData ==
    {[allTokens |-> t, limits |-> l] :
        t \in OptOf({0, 77}),
        l \in OptOf([currentDailyCost : OptOf({750}), dailyCostLimit : OptOf({1000}),
                     currentTotalCost : OptOf({4200}), totalCostLimit : OptOf({0, 5000})])}

AnyModelEntry == [allTokens : OptOf({100, 7}), costs : OptOf({30})]

AnyModels == UNION {[1..n -> AnyModelEntry] : n \in 0..MaxModels}

Failures == {Rejected, Http(500), Http(401), Envelope(FALSE, None), Envelope(TRUE, None)}

AnyKeyIdResponses ==
    Failures \cup {Envelope(TRUE, Some([id |-> ""])), Envelope(TRUE, Some([id |-> "id1"])),
                   Envelope(FALSE, Some([id |-> "id1"]))}

InitFetch ==
    /\ InitCommon
    /\ config = Config("u1", "k1", None, TRUE, TRUE)
    /\ pout = None
    /\ \/ \E d \in AnyStatsData, m \in AnyModels :
              pin = Some([keyId |-> Envelope(TRUE, Some([id |-> "id1"])),
                          userStats |-> Envelope(TRUE, Some(d)),
                          userModelStats |-> Envelope(TRUE, Some(m)), statsFirst |-> TRUE])
       \/ \E k \in AnyKeyIdResponses :
              pin = Some([keyId |-> k, userStats |-> Envelope(TRUE, Some(StatsData(None, None, None, None, None))),
                          userModelStats |-> Envelope(TRUE, Some(<<>>)), statsFirst |-> TRUE])
       \/ \E s \in Failures, m \in Failures \cup {Envelope(TRUE, Some(<<>>))}, b \in BOOLEAN :
              pin = Some([keyId |-> Envelope(TRUE, Some([id |-> "id1"])), userStats |-> s,
                          userModelStats |-> m, statsFirst |-> b])
       \/ \E d \in AnyStatsData, m \in Failures :
              pin = Some([keyId |-> Envelope(TRUE, Some([id |-> "id1"])),
                          userStats |-> Envelope(TRUE, Some(d)),
                          userModelStats |-> m, statsFirst |-> TRUE])

\* one fetch runs to its end
Fetch ==
    /\ pout = None
    /\ pout' = Some(fetchUsageData(pin[1].keyId, pin[1].userStats, pin[1].userModelStats,
                                   pin[1].statsFirst, clock))
    /\ UNCHANGED <<clock, usageVars, extVars, pin>>

NextFetch == Fetch \/ Tick

SpecFetch == InitFetch /\ [][NextFetch]_vars

----------------------------------------------------------------------------
(* The status text on its own: every combination of limits *)

CostWindows ==
    [used : {0, 50, 120}, total : {0, 100, 150}] \cup {[used |-> 750, total |-> 1000]}

AnyUsageInfo ==
    {[daily |-> [cost |-> d, tokens |-> 999], monthly |-> [cost |-> m, tokens |-> 1500],
      total |-> [cost |-> t, tokens |-> 999], lastUpdate |-> StartTime, error |-> None] :
        d \in CostWindows, m \in CostWindows, t \in CostWindows}

InitDisplay ==
    /\ InitCommon
    /\ config \in {Config("u1", "k1", None, TRUE, TRUE), Config("u1", "k1", None, TRUE, FALSE)}
    /\ pout = None
    /\ \E u \in AnyUsageInfo : pin = Some(u)

\* updateTooltip renders a snapshot on a fresh item
Render ==
    /\ pout = None
    /\ pout' = Some([constrained |-> getMostConstrainedLimit(pin[1]),
                     item |-> updateTooltip(showReady(newStatusBarItem), config, pin[1])])
    /\ UNCHANGED <<clock, usageVars, extVars, pin>>

NextDisplay == Render

SpecDisplay == InitDisplay /\ [][NextDisplay]_vars

----------------------------------------------------------------------------
(* Properties *)

\* a step in which getUsageInfo is entered, and the invocation it creates
CallBegins == started' = started + 1
NewCall == IF Len(calls') > Len(calls) THEN calls'[Len(calls')] ELSE last'[1]
FetchBegins == Len(calls') > Len(calls)

\* a step in which a suspended invocation settles (its fetch succeeded or failed)
FetchEnds == Len(calls') < Len(calls)
FetchFails == FetchEnds /\ last'[1].outcome # "fresh"

Figures(u) == [daily |-> u.daily, monthly |-> u.monthly, total |-> u.total]

\* C1: a getUsageInfo call with non-empty arguments returns the cached snapshot
\* unchanged, without any remote call, when a snapshot is cached and less than 10
\* seconds have passed since its fetch time; otherwise it starts a fetch.
C1_CacheHitOrFetch ==
    [][(CallBegins /\ NewCall.baseUrl # "" /\ NewCall.apiKey # "") =>
         IF cachedResult # None /\ clock - lastFetchTime < 10 * 1000
         THEN /\ ~FetchBegins
              /\ NewCall.outcome = "cached"
              /\ NewCall.value = cachedResult
              /\ NewCall.value[1].error = None
              /\ NewCall.issued = {}
              /\ cachedResult' = cachedResult
         ELSE /\ FetchBegins
              /\ NewCall.outcome = "pending"
              /\ NewCall.issued = {"get-key-id"}]_vars

\* a call was served from the cache
C1_Witness ==
    /\ last # None
    /\ last[1].outcome = "cached"
    /\ last[1].baseUrl # "" /\ last[1].apiKey # ""
    /\ last[1].value = cachedResult

\* C2: from an empty cache, two getUsageInfo calls that begin less than 10 seconds
\* apart with no clearCache between them run the fetch protocol at most once: a
\* call does not start a fetch while the cache is valid, nor while an earlier call
\* that began less than 10 seconds ago is still fetching.
C2_AtMostOneFetch ==
    [][(\/ cachedResult # None /\ clock - lastFetchTime < 10 * 1000
        \/ /\ cachedResult = None
           /\ \E i \in Calls : /\ ~calls[i].clearedSince
                               /\ clock - calls[i].now < 10 * 1000)
       => ~(CallBegins /\ FetchBegins)]_vars

\* C3: the first getUsageInfo call with non-empty arguments after a clearCache()
\* is never served from the cache.
C3_NextCallFetches ==
    last # None => ~(last[1].afterClear /\ last[1].outcome = "cached")

\* C4: when a fetch fails while the cache holds a snapshot, the call does not
\* raise: it returns the cached figures, with lastUpdate the current time and
\* softError the non-empty message of the failure.
C4_Fallback ==
    [][(FetchFails /\ cachedResult # None) =>
         /\ last'[1].outcome = "fallback"
         /\ last'[1].value # None
         /\ Figures(last'[1].value[1]) = Figures(cachedResult[1])
         /\ last'[1].value[1].lastUpdate = clock
         /\ last'[1].value[1].error # None
         /\ last'[1].value[1].error[1] # <<>>]_vars

\* a fetch failed over a cached snapshot that a later moment finds expired
C4_Witness ==
    /\ last # None
    /\ last[1].outcome = "fallback"
    /\ cachedResult # None
    /\ last[1].value[1].lastUpdate > cachedResult[1].lastUpdate

\* C5: when a fetch fails while the cache is empty, the failure is raised to the
\* caller, no snapshot is returned and the cache stays empty.
C5_NoFallback ==
    [][(FetchFails /\ cachedResult = None) =>
         /\ last'[1].outcome = "threw"
         /\ last'[1].message # <<>>
         /\ last'[1].value = None
         /\ cachedResult' = None
         /\ lastFetchTime' = lastFetchTime]_vars

\* a fetch failed at the second stage with nothing cached
C5_Witness ==
    /\ last # None
    /\ last[1].outcome = "threw"
    /\ "user-stats" \in last[1].issued
    /\ cachedResult = None

\* the display of the running extension
Display == DisplayState(statusBarManager[1])

C7_ForcedFailurePropagates ==
    last # None => ~(last[1].afterClear /\ last[1].outcome = "fallback")

\* C8: getUsageInfo with an empty baseUrl or apiKey fails with the configuration
\* error: no remote call, no cached snapshot returned, the cache unchanged.
C8_ConfigError ==
    [][(CallBegins /\ (NewCall.baseUrl = "" \/ NewCall.apiKey = "")) =>
         /\ ~FetchBegins
         /\ NewCall.outcome = "threw"
         /\ NewCall.message = <<"Not configured">>
         /\ NewCall.value = None
         /\ NewCall.issued = {}
         /\ cachedResult' = cachedResult
         /\ lastFetchTime' = lastFetchTime]_vars

\* the configuration error was raised while a fresh snapshot was cached
C8_Witness ==
    /\ last # None
    /\ last[1].baseUrl = "" \/ last[1].apiKey = ""
    /\ last[1].outcome = "threw"
    /\ cachedResult # None
    /\ clock - lastFetchTime < 10 * 1000

\* what an optional response field counts as
Present(o) == IF o = None THEN 0 ELSE o[1]

\* the sums over the entries of a model breakdown, taken in no particular order
RECURSIVE SumTokens(_, _)
SumTokens(models, S) ==
    IF S = {} THEN 0
    ELSE LET i == CHOOSE i \in S : TRUE
         IN Present(models[i].allTokens) + SumTokens(models, S \ {i})

RECURSIVE SumCosts(_, _)
SumCosts(models, S) ==
    IF S = {} THEN 0
    ELSE LET i == CHOOSE i \in S : TRUE
         IN Present(models[i].costs) + SumCosts(models, S \ {i})

\* C9: the snapshot of a successful fetch: daily and total cost from the account's
\* four cost fields, daily and total tokens the account's allTokens, monthly cost
\* and tokens the sums over the model breakdown (in any order, zero when empty),
\* no monthly limit, absent fields counted as 0, and no softError.
C9_Snapshot ==
    (pout # None /\ ~pout[1].threw) =>
        LET u == pout[1].value[1]
            d == pin[1].userStats.data[1]
            l == d.limits[1]
            ms == pin[1].userModelStats.data[1]
        IN /\ u.daily.cost = [used |-> Present(l.currentDailyCost),
                              total |-> Present(l.dailyCostLimit)]
           /\ u.total.cost = [used |-> Present(l.currentTotalCost),
                              total |-> Present(l.totalCostLimit)]
           /\ u.daily.tokens = Present(d.allTokens)
           /\ u.total.tokens = Present(d.allTokens)
           /\ u.monthly.cost.used = SumCosts(ms, DOMAIN ms)
           /\ u.monthly.tokens = SumTokens(ms, DOMAIN ms)
           /\ u.monthly.cost.total = 0
           /\ u.error = None
           /\ \A q \in Permutations(DOMAIN ms) :
                  Figures(assembleUsageInfo(d, [i \in DOMAIN ms |-> ms[q[i]]], clock))
                      = Figures(u)

\* a fetch succeeded on two different model entries, with fields absent
C9_Witness ==
    /\ pout # None
    /\ ~pout[1].threw
    /\ Len(pin[1].userModelStats.data[1]) = 2
    /\ pin[1].userModelStats.data[1][1] # pin[1].userModelStats.data[1][2]
    /\ pin[1].userStats.data[1].limits[1].totalCostLimit = None
    /\ pin[1].userStats.data[1].limits[1].dailyCostLimit # None
    /\ pout[1].value[1].monthly.cost.used > 0

\* the three periods in their order of evaluation
PeriodNames == <<"Daily", "Monthly", "Total">>
CostOf(u, i) == IF i = 1 THEN u.daily.cost ELSE IF i = 2 THEN u.monthly.cost ELSE u.total.cost
Remaining(u, i) == CostOf(u, i).total - CostOf(u, i).used
Limited(u) == {i \in 1..3 : CostOf(u, i).total > 0}

\* C10: the most constrained limit is the period with cost.total > 0 of smallest
\* total - used (also when negative), the first of Daily, Monthly, Total on a tie;
\* there is none exactly when all three totals are 0, and then the status text is
\* the icon alone.
C10_MostConstrained ==
    pout # None =>
        LET u == pin[1]
            sel == pout[1].constrained
        IN /\ (sel = None) <=> (\A i \in 1..3 : CostOf(u, i).total = 0)
           /\ sel # None =>
                \E i \in Limited(u) :
                    /\ sel[1].name = PeriodNames[i]
                    /\ sel[1].used = CostOf(u, i).used
                    /\ sel[1].total = CostOf(u, i).total
                    /\ \A j \in Limited(u) :
                           /\ Remaining(u, i) <= Remaining(u, j)
                           /\ Remaining(u, j) = Remaining(u, i) => i <= j
           /\ sel = None =>
                /\ pout[1].item.text.icon = "$(credit-card)"
                /\ pout[1].item.text.percentage = None
                /\ pout[1].item.text.amount = None
           /\ sel # None => pout[1].item.text.percentage # None

\* Daily was selected over Total on a tie, both over their limit
C10_Witness ==
    /\ pout # None
    /\ pout[1].constrained # None
    /\ pout[1].constrained[1].name = "Daily"
    /\ pin[1].daily.cost.used > pin[1].daily.cost.total
    /\ Remaining(pin[1], 3) = Remaining(pin[1], 1)
    /\ 3 \in Limited(pin[1])

\* what Render was given and what it produced
Shown == pout[1].item.text
AmountsShown ==
    /\ pout # None
    /\ config.showUsageInStatusBar /\ config.showAmountInStatusBar
    /\ pout[1].constrained # None

\* the snapshot with daily used 7.5, daily limit 10 and no other limit
DailyOnly ==
    /\ pin[1].daily.cost = [used |-> 750, total |-> 1000]
    /\ pin[1].monthly.cost.total = 0
    /\ pin[1].total.cost.total = 0

\* n is x/den rounded to a multiple of 1/scale, as the integer n = round(x * scale / den)
RoundsTo(n, x, den, scale) ==
    /\ 2 * n * den <= 2 * x * scale + den
    /\ 2 * x * scale < 2 * n * den + den

\* C11 (as stated): with percentage and amounts shown, the compact text carries the
\* percentage with one decimal and the used and total amounts of the most
\* constrained period with two decimals: "75.0% ($7.50/$10.00)" for daily 7.5 of 10.
C11_AmountsTwoDecimals ==
    AmountsShown =>
        LET c == pout[1].constrained[1]
        IN /\ Shown.percentage # None /\ Shown.amount # None
           /\ Shown.percentage[1].digits = 1
           /\ RoundsTo(Shown.percentage[1].scaled, c.used * 100, c.total, 10)
           /\ Shown.amount[1].used.digits = 2
           /\ Shown.amount[1].total.digits = 2
           /\ RoundsTo(Shown.amount[1].used.scaled, c.used, 100, 100)
           /\ RoundsTo(Shown.amount[1].total.scaled, c.total, 100, 100)
           /\ DailyOnly =>
                /\ Shown.percentage[1] = [digits |-> 1, scaled |-> 750]
                /\ Shown.amount[1].used = [digits |-> 2, scaled |-> 750]
                /\ Shown.amount[1].total = [digits |-> 2, scaled |-> 1000]

\* C11 (amended): with percentage and amounts shown, the compact text is the
\* credit-card icon, the percentage with one decimal and the used and total
\* amounts of the most constrained period with one decimal each:
\* "$(credit-card) 75.0% ($7.5/$10.0)" for daily 7.5 of 10.
C11_AmountsOneDecimal ==
    AmountsShown =>
        LET c == pout[1].constrained[1]
        IN /\ Shown.icon = "$(credit-card)"
           /\ Shown.percentage # None /\ Shown.amount # None
           /\ Shown.percentage[1].digits = 1
           /\ RoundsTo(Shown.percentage[1].scaled, c.used * 100, c.total, 10)
           /\ Shown.amount[1].used.digits = 1
           /\ Shown.amount[1].total.digits = 1
           /\ RoundsTo(Shown.amount[1].used.scaled, c.used, 100, 10)
           /\ RoundsTo(Shown.amount[1].total.scaled, c.total, 100, 10)
           /\ DailyOnly =>
                /\ Shown.percentage[1] = [digits |-> 1, scaled |-> 750]
                /\ Shown.amount[1].used = [digits |-> 1, scaled |-> 75]
                /\ Shown.amount[1].total = [digits |-> 1, scaled |-> 100]

\* the daily 7.5 of 10 snapshot was rendered with percentage and amounts
C11_Witness ==
    /\ AmountsShown
    /\ DailyOnly
    /\ pout[1].constrained[1].name = "Daily"
    /\ Shown.amount # None

\* C12: for every configured refresh interval, 0 and negative values included, the
\* period of the installed auto-refresh timer is at least 1 second (1000 ms), and
\* it is 60 seconds when the setting is absent.
C12_TimerPeriod ==
    \A h \in DOMAIN timers :
        /\ timers[h] >= 1000
        /\ (refreshInterval = Some(h) /\ config.refreshInterval = None) => timers[h] = 60 * 1000

\* C13: the step in which a getUsageInfo call ends in the soft-error fallback
\* leaves the stored snapshot and the stored fetch time as they were; the stored
\* snapshot never carries a softError; and a call with non-empty arguments made
\* when the stored fetch time is 10 seconds old or more starts a fetch.
C13_FallbackLeavesCache ==
    [][/\ (FetchEnds /\ last'[1].outcome = "fallback") =>
            /\ cachedResult' = cachedResult
            /\ lastFetchTime' = lastFetchTime
            /\ last'[1].value # cachedResult'
       /\ cachedResult' # None => cachedResult'[1].error = None
       /\ (/\ CallBegins /\ NewCall.baseUrl # "" /\ NewCall.apiKey # ""
           /\ clock - lastFetchTime >= 10 * 1000) =>
            /\ FetchBegins
            /\ "get-key-id" \in NewCall.issued]_vars

\* a call fell back to a snapshot that is still stored, without softError and
\* with a fetch time that is 10 seconds old
C13_Witness ==
    /\ last # None
    /\ last[1].outcome = "fallback"
    /\ last[1].value[1].error # None
    /\ cachedResult # None
    /\ cachedResult[1].error = None
    /\ Figures(cachedResult[1]) = Figures(last[1].value[1])
    /\ clock - lastFetchTime >= 10 * 1000

\* an invocation without its history fields
Core(call) == [call EXCEPT !.clearedSince = FALSE, !.overtaken = FALSE, !.refused = {}]

\* C14: a fetch that begins while others are outstanding leaves them running, a
\* fetch that ends leaves the others running, and every fetch that completes
\* successfully stores its snapshot and the time at which its call began: when
\* two overlapping fetches have both succeeded the cache holds the snapshot of the
\* one that completed last, also when that one began first.
C14_LastCompletedWins ==
    [][/\ FetchBegins =>
            /\ Len(calls') = Len(calls) + 1
            /\ \A i \in Calls : Core(calls'[i]) = Core(calls[i])
       /\ FetchEnds =>
            /\ Len(calls') = Len(calls) - 1
            /\ \E c \in Calls :
                  /\ \A i \in 1..(c - 1) : Core(calls'[i]) = Core(calls[i])
                  /\ \A i \in c..Len(calls') : Core(calls'[i]) = Core(calls[i + 1])
                  /\ last'[1].outcome = "fresh" =>
                       /\ cachedResult' = last'[1].value
                       /\ cachedResult'[1].lastUpdate = clock
                       /\ cachedResult'[1].error = None
                       /\ lastFetchTime' = calls[c].now
                       /\ last'[1].apiKey = calls[c].apiKey]_vars

\* the fetch that began first completed last, after the tick and after the second
\* fetch had succeeded, and its snapshot is the one in the cache
C14_Witness ==
    /\ last # None
    /\ last[1].outcome = "fresh"
    /\ last[1].overtaken
    /\ cachedResult = last[1].value
    /\ cachedResult[1].lastUpdate > lastFetchTime
    /\ calls = <<>>

\* a step in which a fetch succeeds while the snapshot of an earlier success is stored
FreshOverCached == FetchEnds /\ last'[1].outcome = "fresh" /\ cachedResult # None

\* C15 (as stated): the snapshot of a successful fetch has a lastUpdate strictly
\* greater than that of the snapshot stored by an earlier-completing successful
\* fetch, and the stored lastUpdate never decreases from one write to the next.
C15_LastUpdateStrictlyIncreases ==
    [][/\ FreshOverCached => last'[1].value[1].lastUpdate > cachedResult[1].lastUpdate
       /\ (cachedResult # None /\ cachedResult' # None) =>
            cachedResult'[1].lastUpdate >= cachedResult[1].lastUpdate]_vars

\* C15 (amended): the snapshot of a successful fetch carries the time of its
\* completion, which is greater than or equal to that of the snapshot stored by
\* an earlier-completing successful fetch (equal when both complete within the
\* same clock value), and the stored lastUpdate never decreases from one write to
\* the next, also when overlapping fetches complete out of order.
C15_LastUpdateNeverDecreases ==
    [][/\ clock' >= clock
       /\ (FetchEnds /\ last'[1].outcome = "fresh") =>
            /\ last'[1].value[1].lastUpdate = clock
            /\ cachedResult' = last'[1].value
       /\ FreshOverCached => last'[1].value[1].lastUpdate >= cachedResult[1].lastUpdate
       /\ (cachedResult # None /\ cachedResult' # None) =>
            cachedResult'[1].lastUpdate >= cachedResult[1].lastUpdate]_vars

\* two overlapping fetches completed out of order within one clock value: the one
\* that began first wrote the cache last, with the lastUpdate the other one had
C15_Witness ==
    /\ last # None
    /\ last[1].outcome = "fresh"
    /\ last[1].overtaken
    /\ cachedResult = last[1].value
    /\ cachedResult[1].lastUpdate = lastFetchTime

AllRequests == {"get-key-id", "user-stats", "user-model-stats"}

\* C16: within one fetch, user-stats and user-model-stats are requested only once
\* get-key-id has answered with an id, and not at all when it is refused; when
\* any of the three is refused the fetch fails: the call raises or returns the
\* stored figures with a softError, never figures assembled from the answer that
\* did arrive, and the cache is left as it was.
C16_AllOrNothing ==
    [][/\ \A i \in DOMAIN calls' :
            /\ calls'[i].pc = "id" => calls'[i].issued = {"get-key-id"}
            /\ calls'[i].pc = "both" =>
                 /\ calls'[i].issued = AllRequests
                 /\ calls'[i].apiId # None
                 /\ calls'[i].refused = {}
            /\ calls'[i].issued # {"get-key-id"} => calls'[i].pc = "both"
       /\ FetchEnds =>
            /\ "get-key-id" \in last'[1].refused => last'[1].issued = {"get-key-id"}
            /\ last'[1].outcome = "fresh" =>
                 last'[1].refused = {} /\ last'[1].issued = AllRequests
            /\ last'[1].refused # {} =>
                 /\ cachedResult' = cachedResult
                 /\ lastFetchTime' = lastFetchTime
                 /\ IF cachedResult = None
                    THEN last'[1].outcome = "threw" /\ last'[1].value = None
                    ELSE /\ last'[1].outcome = "fallback"
                         /\ Figures(last'[1].value[1]) = Figures(cachedResult[1])
                         /\ last'[1].value[1].error # None]_vars

\* a fetch whose model breakdown was refused, after the id had been obtained,
\* ended in the fallback over a stored snapshot
C16_Witness ==
    /\ last # None
    /\ last[1].refused = {"user-model-stats"}
    /\ last[1].issued = AllRequests
    /\ last[1].outcome = "fallback"
    /\ cachedResult # None

\* C17: while the extension is active and the configuration is invalid (its change
\* has been handled), the display is Unconfigured, whatever fetch completes in
\* the meantime.
C17_StaysUnconfigured ==
    (phase = "active" /\ ~isConfigured(config)) => Display = "Unconfigured"

\* the timers installed in a state are exactly the one the extension holds
OneTimer(live, held) ==
    /\ Cardinality(DOMAIN live) <= 1
    /\ DOMAIN live = IF held = None THEN {} ELSE {held[1]}

\* C18: at most one auto-refresh timer is installed, the one the extension holds
\* the handle of; a configuration change leaves exactly the timer of the new
\* interval; a step in which a fetch ends, failing or not, leaves the timer
\* alone; a tick leaves the cache and the timer as they are (the refresh it
\* invokes is not forced); and once deactivated no timer is installed.
C18_OneTimer ==
    [][/\ OneTimer(timers, refreshInterval)
       /\ OneTimer(timers', refreshInterval')
       /\ phase' = "deactivated" => timers' = <<>> /\ refreshInterval' = None
       /\ config' # config =>
            /\ Cardinality(DOMAIN timers') = 1
            /\ \A h \in DOMAIN timers' :
                  timers'[h] = timerDelay(getConfig(config').refreshInterval * 1000)
       /\ FetchEnds => timers' = timers /\ refreshInterval' = refreshInterval
       /\ (\E h \in DOMAIN timers : TimerTick(h)) =>
            /\ cachedResult' = cachedResult
            /\ lastFetchTime' = lastFetchTime
            /\ timers' = timers
            /\ CallBegins => ~NewCall.afterClear]_vars

\* the timer was replaced by a configuration change while a fetch of the old
\* configuration was outstanding, and is still installed after the forced fetch
\* of the new configuration has failed
C18_Witness ==
    /\ phase = "active"
    /\ config.apiKey = "k2"
    /\ refreshInterval # None
    /\ DOMAIN timers = {refreshInterval[1]}
    /\ timers[refreshInterval[1]] = 1000
    /\ Len(calls) = 1
    /\ calls[1].apiKey = "k1"
    /\ last # None
    /\ last[1].apiKey = "k2"
    /\ last[1].outcome = "threw"

\* the number of dark cells of a bar
FilledCells(bar) == Cardinality({i \in DOMAIN bar : bar[i] = "filled"})

\* C19: for every period, a cost window with total 0 gets no progress bar, whatever
\* its used amount (the section is marked Unlimited); a window with total > 0
\* gets a bar of exactly 25 cells, the dark ones first, whose number of dark
\* cells is min(used/total, 1) * 25 rounded to the nearest integer (halves up),
\* hence all 25 when used >= total.
C19_ProgressBar ==
    pout # None =>
        \A i \in 1..3 :
            LET section == pout[1].item.tooltip.sections[i]
                used == CostOf(pin[1], i).used
                total == CostOf(pin[1], i).total
                capped == IF used < total THEN used ELSE total
            IN /\ section.name = PeriodNames[i]
               /\ total = 0 => section.bar = None /\ section.unlimited /\ section.label = None
               /\ total > 0 =>
                    /\ section.bar # None /\ ~section.unlimited
                    /\ Len(section.bar[1]) = 25
                    /\ \A j \in 1..25 : section.bar[1][j] \in {"filled", "empty"}
                    /\ \A j \in 1..24 :
                          section.bar[1][j] = "empty" => section.bar[1][j + 1] = "empty"
                    /\ RoundsTo(FilledCells(section.bar[1]), capped * 25, total, 1)
                    /\ used >= total => FilledCells(section.bar[1]) = 25

\* a snapshot was rendered with an unlimited period that has usage, a period
\* over its limit and a period exactly half way between two cells (12.5)
C19_Witness ==
    /\ pout # None
    /\ pin[1].daily.cost = [used |-> 50, total |-> 100]
    /\ pin[1].monthly.cost = [used |-> 120, total |-> 0]
    /\ pin[1].total.cost = [used |-> 120, total |-> 100]
    /\ FilledCells(pout[1].item.tooltip.sections[1].bar[1]) = 13
    /\ pout[1].item.tooltip.sections[2].bar = None
    /\ FilledCells(pout[1].item.tooltip.sections[3].bar[1]) = 25

\* the figures a fetch made with the given key can produce
FiguresFor(apiKey) ==
    {Figures(assembleUsageInfo(stats, models, 0)) :
        stats \in RemoteStats(AccountOf(apiKey)), models \in RemoteModels(AccountOf(apiKey))}

\* C20: the snapshot a getUsageInfo(baseUrl, apiKey) call returns, fresh, cached
\* or as fallback, carries figures fetched with that same apiKey.
C20_OwnDataOnly ==
    (last # None /\ last[1].value # None) =>
        Figures(last[1].value[1]) \in FiguresFor(last[1].apiKey)

\* C21: the command of the status item is crsStatus.openSettings exactly when the
\* display is Unconfigured, and crsStatus.refresh when it is Loading, Ready or
\* Error.
C21_ClickAction ==
    statusBarManager # None =>
        /\ statusBarManager[1].command = "crsStatus.openSettings" <=> Display = "Unconfigured"
        /\ Display \in {"Loading", "Ready", "Error"} =>
             statusBarManager[1].command = "crsStatus.refresh"

\* the item shows Loading
LoadingShown == statusBarManager # None /\ Display = "Loading"

\* the item shows the outcome of a refresh, or the extension has been deactivated
OutcomeShown ==
    statusBarManager = None \/ Display \in {"Ready", "Error", "Unconfigured"}

\* C22: with a remote that answers or fails every request, Loading is always
\* followed by Ready, Error or Unconfigured (or by deactivation), and whenever the
\* item shows Loading a getUsageInfo call of the extension is outstanding.
C22_LoadingEnds ==
    /\ [](LoadingShown => \E c \in Calls : calls[c].caller = "ext")
    /\ LoadingShown ~> OutcomeShown

\* every refresh has ended, the last of them in failure after its fetch had been
\* outstanding, and the item of the still active extension shows Error
C22_Witness ==
    /\ phase = "active"
    /\ statusBarManager # None
    /\ calls = <<>>
    /\ last # None
    /\ last[1].caller = "ext"
    /\ last[1].outcome = "threw"
    /\ "get-key-id" \in last[1].issued
    /\ Display = "Error"

====
